---- MODULE Spec2Model ----
(***************************************************************************)
(* A model of the array-layout utilities of dmd_era5.slice_tools:          *)
(* apply_delay_embedding, slice_era5_dataset and flatten_era5_variables.   *)
(*                                                                         *)
(* A numpy array is a record [shape, data]: shape is the tuple of axis     *)
(* lengths and data the elements in C (row-major) order.  Indices are      *)
(* 0-based as in the source; data, a TLA+ sequence, is 1-based.            *)
(* A call that may raise returns a record with a "raised" field: either    *)
(* [raised |-> TRUE, exc, msg, stage] or [raised |-> FALSE, value].        *)
(***************************************************************************)
EXTENDS Integers, Sequences, FiniteSets, TLC

VARIABLES
    X,               \* apply_delay_embedding: the input array
    d,               \* apply_delay_embedding: the delay argument
    embedded,        \* apply_delay_embedding: what the call produced
    ds,              \* slice_era5_dataset: the dataset (time and level axes)
    request,         \* slice_era5_dataset: start_datetime, end_datetime, levels
    tz,              \* slice_era5_dataset: the platform's local UTC offset
    sliced,          \* slice_era5_dataset: what the call produced
    era5_ds,         \* flatten_era5_variables: the dataset
    flattened,       \* flatten_era5_variables: what the call produced
    std_args,        \* standardize_data: data, dim and scale
    standardized,    \* standardize_data: what the call produced
    res_args,        \* resample_era5_dataset: the dataset and delta_time
    resampled,       \* resample_era5_dataset: what the call produced
    run,             \* run_dmd_analysis: the position in the function and its locals
    files,           \* run_dmd_analysis: the files written to output_dir
    clock            \* run_dmd_analysis: the wall clock, in ticks

vars == <<X, d, embedded, ds, request, tz, sliced, era5_ds, flattened,
          std_args, standardized, res_args, resampled, run, files, clock>>

\* Bounds of the model.
MaxN == 2            \* rows (space) of an input matrix
MaxT == 3            \* columns (time) of an input matrix
MaxTick == 6         \* the latest timestamp of a dataset, in ticks
MaxSamples == 2      \* time samples of a dataset
MaxLevels == 2       \* pressure levels of a dataset
MaxReq == 2          \* length of a requested list of levels
MaxDim == 2          \* length of each axis of a gridded dataset
MaxVars == 2         \* data variables of a gridded dataset
MaxStdLen == 2       \* length of each axis of the data to standardize
MaxResTick == 5      \* the latest timestamp of a dataset to resample
MaxResSamples == 3   \* time samples of a dataset to resample
MaxDelta == 3        \* the resampling period delta_time
MaxGrid == 2         \* latitudes and longitudes of an analysed dataset
MaxRunT == 5         \* time samples of an analysed dataset
MaxRank == 2         \* modes returned by the fit
MaxClock == 3        \* the latest reading of the wall clock, in ticks

Vals == {0, 1}       \* element values of an input matrix

NotCalled == [raised |-> FALSE, called |-> FALSE]
Idle == [idle |-> TRUE]

Raise(exc, msg, stage) ==
    [raised |-> TRUE, called |-> TRUE, exc |-> exc, msg |-> msg, stage |-> stage]
Return(value) ==
    [raised |-> FALSE, called |-> TRUE, value |-> value]

---------------------------------------------------------------------------
\* numpy arrays

RECURSIVE Prod(_)
Prod(s) == IF s = <<>> THEN 1 ELSE Head(s) * Prod(Tail(s))

\* The C-order stride (in elements) of axis k of an array of this shape.
Stride(shape, k) == Prod(SubSeq(shape, k + 1, Len(shape)))

\* The 0-based multi-index of flat offset f.
Unravel(f, shape) ==
    [k \in 1..Len(shape) |-> (f \div Stride(shape, k)) % shape[k]]

RECURSIVE RavelFrom(_, _, _)
RavelFrom(ix, shape, k) ==
    IF k > Len(shape) THEN 0
    ELSE ix[k] * Stride(shape, k) + RavelFrom(ix, shape, k + 1)

\* The flat offset of 0-based multi-index ix.
Ravel(ix, shape) == RavelFrom(ix, shape, 1)

ndim(a) == Len(a.shape)
size(a) == Prod(a.shape)

\* a[ix] for a 0-based multi-index ix.
At(a, ix) == a.data[Ravel(ix, a.shape) + 1]

MkArray(shape, f(_)) ==
    [shape |-> shape,
     data  |-> [p \in 1..Prod(shape) |-> f(Unravel(p - 1, shape))]]

\* a.T: the axes reversed.
Reverse(s) == [k \in 1..Len(s) |-> s[Len(s) + 1 - k]]
Transposed(a) ==
    LET shape == Reverse(a.shape)
        elem(ix) == At(a, Reverse(ix))
    IN  MkArray(shape, elem)

---------------------------------------------------------------------------
\* numpy.lib.stride_tricks.sliding_window_view(x, window_shape), axis=None:
\* one window per position along every axis; the window axes are appended.
\* out[p1..pk, w1..wk] = x[p1 + w1, .., pk + wk].
sliding_window_view(x, window_shape) ==
    IF \E k \in 1..Len(window_shape) : window_shape[k] < 0
    THEN Raise("ValueError", "window_shape cannot contain negative values",
               "window")
    ELSE IF Len(window_shape) # ndim(x)
    THEN Raise("ValueError",
               "must provide window_shape for all dimensions of x", "window")
    ELSE IF \E k \in 1..ndim(x) : x.shape[k] < window_shape[k]
    THEN Raise("ValueError",
               "window shape cannot be larger than input array shape", "window")
    ELSE LET nd == ndim(x)
             trimmed == [k \in 1..nd |-> x.shape[k] - (window_shape[k] - 1)]
             shape == trimmed \o window_shape
             elem(ix) == At(x, [k \in 1..nd |-> ix[k] + ix[nd + k]])
         IN  Return(MkArray(shape, elem))

\* a[:, 0]: index 0 taken on the second axis, which is dropped.
TakeFirstOfAxis1(a) ==
    IF a.shape[2] < 1
    THEN Raise("IndexError", "index 0 is out of bounds for axis 1 with size 0",
               "index")
    ELSE LET shape == <<a.shape[1]>> \o SubSeq(a.shape, 3, Len(a.shape))
             elem(ix) == At(a, <<ix[1], 0>> \o SubSeq(ix, 2, Len(ix)))
         IN  Return(MkArray(shape, elem))

\* a.reshape(rows, -1): the same elements in C order; the second length is
\* inferred from the size.
ReshapeRowsInfer(a, rows) ==
    IF rows < 0
    THEN Raise("ValueError", "negative dimensions not allowed", "reshape")
    ELSE IF rows = 0 \/ size(a) % rows # 0
    THEN Raise("ValueError", "cannot reshape array", "reshape")
    ELSE Return([shape |-> <<rows, size(a) \div rows>>, data |-> a.data])

\* The delay argument: a Python value, an int or a float.
IsInt(v) == v.type = "int"

MsgNot2D == "Input array must be 2D."
MsgBadDelay == "Delay must be an integer greater than 0."

\* The delay check with the comparison off by one (d < 0 in place of d <= 0).
DelayRejectedOffByOne(dd) == ~IsInt(dd) \/ dd.val < 0

DelayRejected(dd) == ~IsInt(dd) \/ dd.val <= 0

\* The windows reshaped to one row per window, without the final transpose.
EmbedWindowsNoTranspose(x, dd) ==
    LET w == sliding_window_view(Transposed(x), <<dd.val, x.shape[1]>>)
    IN  IF w.raised THEN w
        ELSE LET c == TakeFirstOfAxis1(w.value)
             IN  IF c.raised THEN c
                 ELSE ReshapeRowsInfer(c.value, x.shape[2] - dd.val + 1)

\* The windows taken over X itself and not over X.T: the same shape, with the
\* rows of a window ordered space-major (row i*d + k) and not delay-major.
EmbedWindowsSpaceMajor(x, dd) ==
    LET w == sliding_window_view(Transposed(x), <<dd.val, x.shape[1]>>)
    IN  IF w.raised THEN w
        ELSE LET shape == <<x.shape[1] * dd.val, x.shape[2] - dd.val + 1>>
                 elem(ix) == At(x, <<ix[1] \div dd.val, ix[2] + (ix[1] % dd.val)>>)
             IN  Return(MkArray(shape, elem))

\* sliding_window_view(X.T, (d, X.shape[0]))[:, 0]
\*     .reshape(X.shape[1] - d + 1, -1).T
EmbedWindows(x, dd) ==
    LET w == sliding_window_view(Transposed(x), <<dd.val, x.shape[1]>>)
    IN  IF w.raised THEN w
        ELSE LET c == TakeFirstOfAxis1(w.value)
             IN  IF c.raised THEN c
                 ELSE LET r == ReshapeRowsInfer(c.value, x.shape[2] - dd.val + 1)
                      IN  IF r.raised THEN r
                          ELSE Return(Transposed(r.value))

apply_delay_embedding(x, dd) ==
    IF ndim(x) # 2
    THEN Raise("ValueError", MsgNot2D, "validate")
    ELSE IF DelayRejected(dd)
    THEN Raise("ValueError", MsgBadDelay, "validate")
    ELSE EmbedWindows(x, dd)

\* The inputs: every array of a shape over Vals.
Arrays(shape) ==
    {[shape |-> shape, data |-> dd] : dd \in [1..Prod(shape) -> Vals]}

Inputs2D == UNION {Arrays(<<n, T>>) : n \in 0..MaxN, T \in 0..MaxT}
Inputs1D == UNION {Arrays(<<T>>) : T \in 0..MaxT}
Inputs3D == UNION {Arrays(<<1, 1, T>>) : T \in 0..MaxT}

\* The delays: the ints -1 .. MaxT + 1 and the floats 1.0 and 2.0.
Delays ==
    {[type |-> "int", val |-> v] : v \in -1..(MaxT + 1)}
    \cup {[type |-> "float", val |-> v] : v \in {1, 2}}

InitEmbed ==
    /\ X \in Inputs2D \cup Inputs1D \cup Inputs3D
    /\ d \in Delays
    /\ embedded = NotCalled
    /\ ds = Idle /\ request = Idle /\ tz = 0 /\ sliced = Idle
    /\ era5_ds = Idle /\ flattened = Idle
    /\ std_args = Idle /\ standardized = Idle
    /\ res_args = Idle /\ resampled = Idle
    /\ run = Idle /\ files = Idle /\ clock = 0

CallApplyDelayEmbedding ==
    /\ ~embedded.called
    /\ embedded' = apply_delay_embedding(X, d)
    /\ UNCHANGED <<X, d, ds, request, tz, sliced, era5_ds, flattened,
                 std_args, standardized, res_args, resampled, run, files, clock>>

NextEmbed == CallApplyDelayEmbedding

SpecEmbed == InitEmbed /\ [][NextEmbed]_vars

---------------------------------------------------------------------------
\* Claims about apply_delay_embedding (checked under SpecEmbed).

Is2D(x) == ndim(x) = 2
ValidDelay(x, dd) == IsInt(dd) /\ 1 <= dd.val /\ dd.val <= x.shape[2]

\* C1: for a 2-D X of shape (n, T) and an integer d with 1 <= d <= T the
\* result is a 2-D matrix of exactly n*d rows and T-d+1 columns.
C1_EmbeddingShape ==
    (embedded.called /\ Is2D(X) /\ ValidDelay(X, d)) =>
        /\ ~embedded.raised
        /\ embedded.value.shape = <<X.shape[1] * d.val, X.shape[2] - d.val + 1>>
        /\ Len(embedded.value.data) = X.shape[1] * d.val * (X.shape[2] - d.val + 1)

C1_Witness ==
    /\ embedded.called /\ ~embedded.raised
    /\ X.shape = <<2, 3>> /\ d = [type |-> "int", val |-> 2]
    /\ embedded.value.shape = <<4, 2>>

\* C2: rows k*n .. (k+1)*n-1 of output column j are input column j+k in the
\* original row order, for every j in 0..T-d and k in 0..d-1; with d = 1 the
\* output is X element for element.
C2_EmbeddingContent ==
    (embedded.called /\ Is2D(X) /\ ValidDelay(X, d)) =>
        LET n == X.shape[1]
            T == X.shape[2]
        IN  /\ ~embedded.raised
            /\ embedded.value.shape = <<n * d.val, T - d.val + 1>>
            /\ \A j \in 0..(T - d.val) : \A k \in 0..(d.val - 1) :
                 \A i \in 0..(n - 1) :
                   At(embedded.value, <<k * n + i, j>>) = At(X, <<i, j + k>>)
            /\ (d.val = 1 => embedded.value = X)

C2_Witness ==
    /\ embedded.called /\ ~embedded.raised
    /\ X = [shape |-> <<2, 3>>, data |-> <<0, 1, 0, 0, 0, 1>>]
    /\ d = [type |-> "int", val |-> 2]
    /\ embedded.value.data = <<0, 1, 0, 0, 1, 0, 0, 1>>

\* C3 as stated: a ValueError is raised by the validation, before any
\* windowing, when X is not 2-D or d is not an integer greater than 0, and
\* every 2-D X with a positive integer d yields a matrix.
C3_OnlyValidationRejects ==
    embedded.called =>
        /\ (~Is2D(X) \/ ~IsInt(d) \/ d.val <= 0) =>
              /\ embedded.raised /\ embedded.exc = "ValueError"
              /\ embedded.stage = "validate"
        /\ (Is2D(X) /\ IsInt(d) /\ d.val > 0) => ~embedded.raised

\* C3 amended: the validation raises its ValueError, before any windowing,
\* exactly when X is not 2-D or d is not an integer greater than 0; a 2-D X
\* with an integer 1 <= d <= T yields a matrix; a 2-D X with an integer
\* d > T is rejected by the windowing step with a ValueError.
C3_ValidationAndWindowReject ==
    embedded.called =>
        /\ (~Is2D(X) \/ ~IsInt(d) \/ d.val <= 0) =>
              /\ embedded.raised /\ embedded.exc = "ValueError"
              /\ embedded.stage = "validate"
              /\ embedded.msg = (IF ~Is2D(X) THEN MsgNot2D ELSE MsgBadDelay)
        /\ (Is2D(X) /\ ValidDelay(X, d)) => ~embedded.raised
        /\ (Is2D(X) /\ IsInt(d) /\ d.val > X.shape[2]) =>
              /\ embedded.raised /\ embedded.exc = "ValueError"
              /\ embedded.stage = "window"

C3_Witness ==
    /\ embedded.called /\ embedded.raised
    /\ X.shape = <<2, 3>> /\ d = [type |-> "int", val |-> 0]
    /\ embedded.msg = MsgBadDelay

---------------------------------------------------------------------------
\* slice_era5_dataset.
\*
\* Time is counted in ticks, UsTicks of them to the microsecond: a
\* datetime64[ns] timestamp of the dataset is any tick, a Python datetime
\* (microsecond resolution) is a multiple of UsTicks.  The dataset's time
\* axis is strictly increasing and its levels are distinct.  An optional
\* argument is [given |-> FALSE] (None) or [given |-> TRUE, v |-> value].

UsTicks == 3

None == [given |-> FALSE]
Some(v) == [given |-> TRUE, v |-> v]

\* Python truthiness, as used by "x or default": None is false, a datetime
\* is true, a list is true when it is not empty.
TruthyDatetime(o) == o.given
TruthyList(o) == o.given /\ o.v # <<>>

\* datetime.fromtimestamp(ns * 1e-9): the timestamp rounded to the nearest
\* microsecond and expressed as a naive datetime in the platform's local
\* time zone, offset ticks ahead of UTC.
fromtimestamp(ns, offset) ==
    ((ns + UsTicks \div 2) \div UsTicks) * UsTicks + offset

get_dataset_time_bounds(dataset, offset) ==
    [first |-> fromtimestamp(dataset.time[1], offset),
     last  |-> fromtimestamp(dataset.time[Len(dataset.time)], offset)]

\* ds.sel(time=slice(start_dt, end_dt), level=levels): the samples whose
\* label lies in [start_dt, end_dt], both ends included, and the listed
\* levels in the listed order; a level that is not in the index is a KeyError.
sel(dataset, start_dt, end_dt, lvls) ==
    IF \E k \in 1..Len(lvls) : \A m \in 1..Len(dataset.level) :
            dataset.level[m] # lvls[k]
    THEN Raise("KeyError", "not all values found in index 'level'", "sel")
    ELSE LET inRange(t) == start_dt <= t /\ t <= end_dt
         IN  Return([time  |-> SelectSeq(dataset.time, inRange),
                     level |-> lvls])

MsgOutOfBounds == "Time range is outside dataset bounds."
MsgStartNotBeforeEnd == "Start datetime must be before end datetime."
MsgLevelNotAvailable == "Requested level is not available in the dataset."

\* The order check with > in place of >=.
StartNotBeforeEndStrict(start_dt, end_dt) == start_dt > end_dt

StartNotBeforeEnd(start_dt, end_dt) == start_dt >= end_dt

OutOfBounds(start_dt, end_dt, bounds) ==
    start_dt < bounds.first \/ end_dt > bounds.last

\* The try block without the except clause: the KeyError propagates.
SelectNoExcept(dataset, start_dt, end_dt, lvls) ==
    sel(dataset, start_dt, end_dt, lvls)

\* try: return ds.sel(...)  except KeyError: raise ValueError(available levels)
Select(dataset, start_dt, end_dt, lvls) ==
    LET r == sel(dataset, start_dt, end_dt, lvls)
    IN  IF r.raised /\ r.exc = "KeyError"
        THEN Raise("ValueError",
                   [text |-> MsgLevelNotAvailable, available |-> dataset.level],
                   "levels")
        ELSE r

slice_era5_dataset(dataset, req, offset) ==
    LET time_bounds == get_dataset_time_bounds(dataset, offset)
        start_dt == IF TruthyDatetime(req.start) THEN req.start.v
                    ELSE time_bounds.first
        end_dt == IF TruthyDatetime(req.end) THEN req.end.v
                  ELSE time_bounds.last
    IN  IF OutOfBounds(start_dt, end_dt, time_bounds)
        THEN Raise("ValueError", MsgOutOfBounds, "bounds")
        ELSE IF StartNotBeforeEnd(start_dt, end_dt)
        THEN Raise("ValueError", MsgStartNotBeforeEnd, "order")
        ELSE LET lvls == IF TruthyList(req.levels) THEN req.levels.v
                         ELSE dataset.level
             IN  Select(dataset, start_dt, end_dt, lvls)

\* The inputs.
SeqsUpTo(S, n) == UNION {[1..k -> S] : k \in 0..n}

TimeAxes ==
    {t \in SeqsUpTo(0..MaxTick, MaxSamples) :
        /\ Len(t) >= 1
        /\ \A k \in 1..(Len(t) - 1) : t[k] < t[k + 1]}

LevelAxes == {[k \in 1..n |-> k] : n \in 1..MaxLevels}

Datetimes == {t \in (-UsTicks)..(MaxTick + UsTicks) : t % UsTicks = 0}

OptDatetimes == {None} \cup {Some(t) : t \in Datetimes}
OptLevels == {None} \cup {Some(l) : l \in SeqsUpTo(1..(MaxLevels + 1), MaxReq)}

\* The local UTC offsets: west of, at, and east of UTC.
Offsets == {-UsTicks, 0, UsTicks}

InitSlice ==
    /\ ds \in [time : TimeAxes, level : LevelAxes]
    /\ request \in [start : OptDatetimes, end : OptDatetimes, levels : OptLevels]
    /\ tz \in Offsets
    /\ sliced = NotCalled
    /\ X = Idle /\ d = Idle /\ embedded = Idle
    /\ era5_ds = Idle /\ flattened = Idle
    /\ std_args = Idle /\ standardized = Idle
    /\ res_args = Idle /\ resampled = Idle
    /\ run = Idle /\ files = Idle /\ clock = 0

CallSliceEra5Dataset ==
    /\ ~sliced.called
    /\ sliced' = slice_era5_dataset(ds, request, tz)
    /\ UNCHANGED <<X, d, embedded, ds, request, tz, era5_ds, flattened,
                 std_args, standardized, res_args, resampled, run, files, clock>>

NextSlice == CallSliceEra5Dataset

SpecSlice == InitSlice /\ [][NextSlice]_vars

---------------------------------------------------------------------------
\* Claims about slice_era5_dataset (checked under SpecSlice).

FirstTimestamp == ds.time[1]
LastTimestamp == ds.time[Len(ds.time)]

\* The start and end the call works with: given, or defaulted to the bounds.
EffectiveStart ==
    IF request.start.given THEN request.start.v
    ELSE get_dataset_time_bounds(ds, tz).first
EffectiveEnd ==
    IF request.end.given THEN request.end.v
    ELSE get_dataset_time_bounds(ds, tz).last

InDataset(l) == \E m \in 1..Len(ds.level) : ds.level[m] = l
AllRequestedAvailable ==
    request.levels.given =>
        \A k \in 1..Len(request.levels.v) : InDataset(request.levels.v[k])

\* Every timestamp of the dataset is a whole number of microseconds.
MicrosecondAligned == \A k \in 1..Len(ds.time) : ds.time[k] % UsTicks = 0

FullRequest ==
    \/ ~request.start.given /\ ~request.end.given /\ ~request.levels.given
    \/ /\ request.start = Some(FirstTimestamp)
       /\ request.end = Some(LastTimestamp)
       /\ request.levels = Some(ds.level)

\* C4: with start, end and levels all unspecified, or equal to the dataset's
\* first and last timestamps and all its levels, the call raises nothing and
\* returns the input's time and level coordinates, for a dataset of any
\* number of samples, one included.  Stated for a platform in UTC and a
\* dataset of whole-microsecond timestamps.
C4_FullBoundsReturnsAll ==
    (sliced.called /\ tz = 0 /\ MicrosecondAligned /\ FullRequest) =>
        /\ ~sliced.raised
        /\ sliced.value.time = ds.time
        /\ sliced.value.level = ds.level

\* C5: the call raises a ValueError, and returns no dataset, whenever the
\* effective start (given or defaulted) is greater than or equal to the
\* effective end.
C5_StartNotBeforeEndRaises ==
    (sliced.called /\ EffectiveStart >= EffectiveEnd) =>
        sliced.raised /\ sliced.exc = "ValueError"

C5_Witness ==
    /\ sliced.called /\ sliced.raised
    /\ ds.time = <<0, 3>> /\ tz = 0
    /\ request.start = Some(3) /\ request.end = Some(3)
    /\ sliced.msg = MsgStartNotBeforeEnd

\* C6: a requested start earlier than the dataset's first timestamp, or a
\* requested end later than its last, raises the out-of-bounds ValueError
\* (the bounds check comes before the start < end check) whatever the levels;
\* a request with first <= start < end <= last and available levels raises
\* nothing.  Stated for a dataset of whole-microsecond timestamps.
C6_BoundsCheck ==
    (sliced.called /\ MicrosecondAligned) =>
        /\ (\/ request.start.given /\ request.start.v < FirstTimestamp
            \/ request.end.given /\ request.end.v > LastTimestamp) =>
              /\ sliced.raised /\ sliced.exc = "ValueError"
              /\ sliced.stage = "bounds"
        /\ (/\ request.start.given /\ request.end.given
            /\ FirstTimestamp <= request.start.v
            /\ request.start.v < request.end.v
            /\ request.end.v <= LastTimestamp
            /\ AllRequestedAvailable) => ~sliced.raised

\* C6 holds on a platform whose local time zone is UTC: the violations of
\* C6_BoundsCheck all come from the local-time conversion of the bounds.
C6_BoundsCheckUTC == (tz = 0) => C6_BoundsCheck

\* The time range passes the call's own two range checks.
AcceptedRange ==
    LET b == get_dataset_time_bounds(ds, tz)
    IN  b.first <= EffectiveStart /\ EffectiveStart < EffectiveEnd
        /\ EffectiveEnd <= b.last

LevelsErrorRaised ==
    /\ sliced.raised /\ sliced.exc = "ValueError" /\ sliced.stage = "levels"
    /\ sliced.msg.available = ds.level

\* C7 as stated: with a valid time range, a levels list with a level that is
\* not in the dataset raises a ValueError listing the available levels; a
\* levels list that is a subset of the dataset's levels returns exactly the
\* requested levels in the requested order.
C7_LevelsSelected ==
    (sliced.called /\ AcceptedRange /\ request.levels.given) =>
        IF AllRequestedAvailable
        THEN ~sliced.raised /\ sliced.value.level = request.levels.v
        ELSE LevelsErrorRaised

\* C7 amended: as stated for a levels list that is not empty; an empty list
\* is taken as unspecified and all the dataset's levels are returned.
C7_NonEmptyLevelsSelected ==
    (sliced.called /\ AcceptedRange /\ request.levels.given) =>
        IF request.levels.v = <<>>
        THEN ~sliced.raised /\ sliced.value.level = ds.level
        ELSE IF AllRequestedAvailable
        THEN ~sliced.raised /\ sliced.value.level = request.levels.v
        ELSE LevelsErrorRaised

C7_Witness ==
    /\ sliced.called /\ AcceptedRange
    /\ ds.level = <<1, 2>> /\ request.levels = Some(<<2, 3>>)
    /\ LevelsErrorRaised

---------------------------------------------------------------------------
\* flatten_era5_variables.
\*
\* A dataset has the dimensions level, latitude, longitude and time, a set
\* of coordinate names, and data variables; each variable is defined on the
\* four dimensions, stored in a dimension order of its own.  A labelled
\* array is [dims, shape, data].

PosIn(seq, x) == CHOOSE k \in 1..Len(seq) : seq[k] = x
Has(seq, x) == \E k \in 1..Len(seq) : seq[k] = x

\* sorted(names) of a list of distinct strings: the names in alphabetical
\* order.
Alphabet == <<"latitude", "level", "longitude", "number", "time">>
sorted(names) ==
    LET present(n) == n \in names IN SelectSeq(Alphabet, present)

must_have_coords == {"latitude", "longitude", "time", "level"}

\* The stacking order with latitude and level exchanged.
stack_order_latitude_first == <<"latitude", "level", "longitude">>

spatial_stack_order == <<"level", "latitude", "longitude">>

\* The coordinate check passing whenever the required names are present.
CoordsMismatchMissingOnly(coords) == ~(must_have_coords \subseteq coords)

\* sorted(coords) != sorted(must_have_coords)
CoordsMismatch(coords) == sorted(coords) # sorted(must_have_coords)

\* var.transpose(*order): the same elements, the axes in the given order.
transpose(var, order) ==
    LET shape == [k \in 1..Len(order) |-> var.shape[PosIn(var.dims, order[k])]]
        elem(ix) ==
            At(var, [m \in 1..Len(var.dims) |-> ix[PosIn(order, var.dims[m])]])
        arr == MkArray(shape, elem)
    IN  [dims |-> order, shape |-> shape, data |-> arr.data]

\* The variable read as if it were stored in the order (other dims, stacked
\* dims): no transpose before the reshape.
stack_no_reorder(var, dims, new_dim) ==
    LET notStacked(n) == ~Has(dims, n)
        other == SelectSeq(var.dims, notStacked)
        keep == [k \in 1..Len(other) |-> var.shape[PosIn(var.dims, other[k])]]
        stackedLen == Prod([k \in 1..Len(dims) |->
                                var.shape[PosIn(var.dims, dims[k])]])
    IN  [dims  |-> other \o <<new_dim>>,
         shape |-> keep \o <<stackedLen>>,
         data  |-> var.data]

\* Variable.stack(new_dim=dims): the stacked dimensions are moved last, in
\* the order given, and merged into one axis by a C-order reshape.
stack(var, dims, new_dim) ==
    LET notStacked(n) == ~Has(dims, n)
        other == SelectSeq(var.dims, notStacked)
        reordered == transpose(var, other \o dims)
        keep == SubSeq(reordered.shape, 1, Len(other))
        stackedLen == Prod(SubSeq(reordered.shape, Len(other) + 1,
                                  Len(reordered.shape)))
    IN  [dims  |-> other \o <<new_dim>>,
         shape |-> keep \o <<stackedLen>>,
         data  |-> reordered.data]

\* np.concatenate(arrays, axis=0) of 2-D arrays with equal column counts.
RECURSIVE concatenate(_)
concatenate(arrays) ==
    IF Len(arrays) = 1 THEN Head(arrays)
    ELSE LET rest == concatenate(Tail(arrays))
         IN  [shape |-> <<Head(arrays).shape[1] + rest.shape[1],
                          Head(arrays).shape[2]>>,
              data  |-> Head(arrays).data \o rest.data]

\* stacked[coord].values of a stacked coordinate: the coordinate of every
\* point of the space axis, the stacked dimensions varying in C order.
stacked_coord(e, order, coord) ==
    LET shape == [k \in 1..Len(order) |-> e.sizes[order[k]]]
    IN  [r \in 1..Prod(shape) |->
            e.coordvals[coord][Unravel(r - 1, shape)[PosIn(order, coord)] + 1]]

flatten_era5_variables(e) ==
    IF CoordsMismatch(e.coords)
    THEN Raise("ValueError", "Missing required coordinates", "coords")
    ELSE LET data_list ==
                 [v \in 1..Len(e.vars) |->
                    LET s == transpose(stack(e.vars[v], spatial_stack_order,
                                             "space"),
                                       <<"space", "time">>)
                    IN  [shape |-> s.shape, data |-> s.data]]
             data_combined == concatenate(data_list)
             flattened_coords ==
                 [level     |-> stacked_coord(e, spatial_stack_order, "level"),
                  latitude  |-> stacked_coord(e, spatial_stack_order, "latitude"),
                  longitude |-> stacked_coord(e, spatial_stack_order, "longitude"),
                  time      |-> e.coordvals["time"]]
             variables == [v \in 1..Len(e.vars) |-> e.vars[v].name]
         IN  Return([data_combined    |-> data_combined,
                     flattened_coords |-> flattened_coords,
                     variables        |-> variables])

\* The inputs.
CoordNames == {Alphabet[k] : k \in 1..Len(Alphabet)}
Dims == <<"level", "latitude", "longitude", "time">>

\* The dimension orders a variable may be stored in.
DimOrders ==
    {<<"time", "level", "latitude", "longitude">>,
     <<"level", "latitude", "longitude", "time">>,
     <<"longitude", "time", "latitude", "level">>}

VarNames == <<"temperature", "u_component_of_wind", "v_component_of_wind">>

\* The coordinate labels of an axis of length n: distinct and increasing.
Labels(dim, n) == [k \in 1..n |-> 10 * PosIn(Dims, dim) + k]

\* A variable stored in the dimension order dims: the element at level l,
\* latitude a, longitude o and time t is the tag <<name, l, a, o, t>>, so
\* that two elements are equal only when they are the same element.
Variable(name, dims, sizes) ==
    LET shape == [k \in 1..Len(dims) |-> sizes[dims[k]]]
        elem(ix) == <<name>> \o [k \in 1..Len(Dims) |-> ix[PosIn(dims, Dims[k])]]
        arr == MkArray(shape, elem)
    IN  [name |-> name, dims |-> dims, shape |-> shape, data |-> arr.data]

Dataset(coords, sizes, orders) ==
    [coords    |-> coords,
     sizes     |-> sizes,
     coordvals |-> [n \in {Dims[k] : k \in 1..Len(Dims)} |-> Labels(n, sizes[n])],
     vars      |-> [v \in 1..Len(orders) |-> Variable(VarNames[v], orders[v], sizes)]]

Datasets ==
    {Dataset(c, s, o) :
        c \in SUBSET CoordNames,
        s \in [{Dims[k] : k \in 1..Len(Dims)} -> 1..MaxDim],
        o \in {q \in SeqsUpTo(DimOrders, MaxVars) : Len(q) >= 1}}

InitFlatten ==
    /\ era5_ds \in Datasets
    /\ flattened = NotCalled
    /\ X = Idle /\ d = Idle /\ embedded = Idle
    /\ ds = Idle /\ request = Idle /\ tz = 0 /\ sliced = Idle
    /\ std_args = Idle /\ standardized = Idle
    /\ res_args = Idle /\ resampled = Idle
    /\ run = Idle /\ files = Idle /\ clock = 0

CallFlattenEra5Variables ==
    /\ ~flattened.called
    /\ flattened' = flatten_era5_variables(era5_ds)
    /\ UNCHANGED <<X, d, embedded, ds, request, tz, sliced, era5_ds,
                 std_args, standardized, res_args, resampled, run, files, clock>>

NextFlatten == CallFlattenEra5Variables

SpecFlatten == InitFlatten /\ [][NextFlatten]_vars

---------------------------------------------------------------------------
\* Claims about flatten_era5_variables (checked under SpecFlatten).

nL == era5_ds.sizes["level"]
nA == era5_ds.sizes["latitude"]
nO == era5_ds.sizes["longitude"]
nT == era5_ds.sizes["time"]

\* The element of a stored variable at level l, latitude a, longitude o and
\* time t (0-based), read through the variable's own dimension order.
ElementOf(var, l, a, o, t) ==
    LET at == [level |-> l, latitude |-> a, longitude |-> o, time |-> t]
    IN  At(var, [m \in 1..Len(var.dims) |-> at[var.dims[m]]])

\* C8: the call raises a ValueError at the coordinate check, before any
\* stacking or concatenation, exactly when the dataset's set of coordinate
\* names differs from {level, latitude, longitude, time}.
C8_CoordinateCheck ==
    flattened.called =>
        IF era5_ds.coords = {"level", "latitude", "longitude", "time"}
        THEN ~flattened.raised
        ELSE /\ flattened.raised /\ flattened.exc = "ValueError"
             /\ flattened.stage = "coords"

C8_Witness ==
    /\ flattened.called /\ flattened.raised
    /\ era5_ds.coords = {"level", "latitude", "longitude", "time", "number"}

\* C9: the matrix has shape (V*L*A*O, T); the element of variable v (in the
\* order of the returned variable list) at level l, latitude a, longitude o
\* and time t is at row v*L*A*O + l*A*O + a*O + o, column t; the level,
\* latitude and longitude lookups have L*A*O entries, the coordinates of rows
\* 0..L*A*O-1, and the time lookup has T entries.
C9_FlattenLayout ==
    (flattened.called /\ ~flattened.raised) =>
        LET out == flattened.value
            V == Len(era5_ds.vars)
            S == nL * nA * nO
        IN  /\ out.data_combined.shape = <<V * S, nT>>
            /\ Len(out.variables) = V
            /\ \A v \in 0..(V - 1) :
                 /\ out.variables[v + 1] = era5_ds.vars[v + 1].name
                 /\ \A l \in 0..(nL - 1), a \in 0..(nA - 1),
                       o \in 0..(nO - 1), t \in 0..(nT - 1) :
                      At(out.data_combined,
                         <<v * S + l * nA * nO + a * nO + o, t>>)
                        = ElementOf(era5_ds.vars[v + 1], l, a, o, t)
            /\ Len(out.flattened_coords.level) = S
            /\ Len(out.flattened_coords.latitude) = S
            /\ Len(out.flattened_coords.longitude) = S
            /\ \A l \in 0..(nL - 1), a \in 0..(nA - 1), o \in 0..(nO - 1) :
                 LET r == l * nA * nO + a * nO + o + 1
                 IN  /\ out.flattened_coords.level[r]
                          = era5_ds.coordvals["level"][l + 1]
                     /\ out.flattened_coords.latitude[r]
                          = era5_ds.coordvals["latitude"][a + 1]
                     /\ out.flattened_coords.longitude[r]
                          = era5_ds.coordvals["longitude"][o + 1]
            /\ out.flattened_coords.time = era5_ds.coordvals["time"]

C9_Witness ==
    /\ flattened.called /\ ~flattened.raised
    /\ Len(era5_ds.vars) = 2
    /\ nL = 2 /\ nA = 1 /\ nO = 2 /\ nT = 2
    /\ era5_ds.vars[2].dims = <<"time", "level", "latitude", "longitude">>
    /\ At(flattened.value.data_combined, <<4 + 2 + 1, 1>>)
         = <<"u_component_of_wind", 1, 0, 1, 1>>

\* The inverse of the flattening, from what the call returned alone: the
\* axis lengths are the numbers of distinct entries of the lookups, the
\* matrix is split into consecutive blocks of L*A*O rows, one per returned
\* variable name, and each block is reshaped in C order to
\* (level, latitude, longitude, time).
Distinct(seq) == Cardinality({seq[k] : k \in 1..Len(seq)})

Unflatten(out) ==
    LET L == Distinct(out.flattened_coords.level)
        A == Distinct(out.flattened_coords.latitude)
        O == Distinct(out.flattened_coords.longitude)
        T == Len(out.flattened_coords.time)
        S == Len(out.flattened_coords.level)
    IN  [v \in 1..Len(out.variables) |->
            [name  |-> out.variables[v],
             dims  |-> Dims,
             shape |-> <<L, A, O, T>>,
             data  |-> SubSeq(out.data_combined.data,
                              (v - 1) * S * T + 1, v * S * T)]]

---------------------------------------------------------------------------
\* standardize_data.
\*
\* Numbers are exact.  A rational is a pair <<n, q>> in lowest terms with
\* q > 0.  The quotient of a rational c by a standard deviation sqrt(v) is
\* the real number [sign, square] of that sign whose square is c^2 / v, and
\* "nan" when v = 0 (the quotient 0 / 0 of floating point).

Abs(n) == IF n < 0 THEN -n ELSE n
Sign(n) == IF n < 0 THEN -1 ELSE IF n = 0 THEN 0 ELSE 1

RECURSIVE GCD(_, _)
GCD(a, b) == IF b = 0 THEN a ELSE GCD(b, a % b)

Frac(n, q) ==
    LET g == GCD(Abs(n), q) IN <<n \div g, q \div g>>
FromInt(n) == <<n, 1>>
FracAdd(a, b) == Frac(a[1] * b[2] + b[1] * a[2], a[2] * b[2])
FracSub(a, b) == Frac(a[1] * b[2] - b[1] * a[2], a[2] * b[2])
FracMul(a, b) == Frac(a[1] * b[1], a[2] * b[2])
FracDivInt(a, n) == Frac(a[1], a[2] * n)

RECURSIVE FracSum(_)
FracSum(seq) ==
    IF seq = <<>> THEN FromInt(0) ELSE FracAdd(Head(seq), FracSum(Tail(seq)))

\* The elements of the line through ix along the axis numbered axis.
Line(a, ix, axis) ==
    [k \in 1..a.shape[axis] |-> At(a, [ix EXCEPT ![axis] = k - 1])]

\* data.mean(dim=dim), broadcast back over dim.
mean(data, dim) ==
    LET axis == PosIn(data.dims, dim)
        elem(ix) == FracDivInt(FracSum(Line(data, ix, axis)), data.shape[axis])
        arr == MkArray(data.shape, elem)
    IN  [dims |-> data.dims, shape |-> data.shape, data |-> arr.data]

\* The square of data.std(dim=dim) (ddof = 0), broadcast back over dim: the
\* mean of the squared deviations from the mean.
variance(data, dim) ==
    LET axis == PosIn(data.dims, dim)
        m == mean(data, dim)
        elem(ix) ==
            LET line == Line(data, ix, axis)
                dev == [k \in 1..Len(line) |-> FracSub(line[k], At(m, ix))]
                sq == [k \in 1..Len(line) |-> FracMul(dev[k], dev[k])]
            IN  FracDivInt(FracSum(sq), data.shape[axis])
        arr == MkArray(data.shape, elem)
    IN  [dims |-> data.dims, shape |-> data.shape, data |-> arr.data]

\* c / sqrt(v) for rationals c and v >= 0.
DivBySqrt(c, v) ==
    IF v[1] = 0
    THEN IF c[1] = 0 THEN "nan" ELSE "inf"
    ELSE [sign   |-> Sign(c[1]),
          square |-> Frac(c[1] * c[1] * v[2], c[2] * c[2] * v[1])]

\* The data left as they are: the mean is not removed.
CentreSkipped(data, dim) == data

\* data = data - data.mean(dim=dim)
Centre(data, dim) ==
    LET m == mean(data, dim)
        elem(ix) == FracSub(At(data, ix), At(m, ix))
        arr == MkArray(data.shape, elem)
    IN  [dims |-> data.dims, shape |-> data.shape, data |-> arr.data]

\* data = data / data.std(dim=dim)
Scale(data, dim) ==
    LET v == variance(data, dim)
        elem(ix) == DivBySqrt(At(data, ix), At(v, ix))
        arr == MkArray(data.shape, elem)
    IN  [dims |-> data.dims, shape |-> data.shape, data |-> arr.data]

standardize_data(data, dim, scale) ==
    LET centred == Centre(data, dim)
    IN  IF scale THEN Scale(centred, dim) ELSE centred

\* The inputs: 2-D data over (space, time) with elements in StdVals.
StdVals == {0, 3}
StdDims == <<"space", "time">>

DataArrays ==
    {[dims  |-> StdDims, shape |-> <<r, c>>,
      data  |-> [p \in 1..(r * c) |-> FromInt(f[p])]] :
        <<r, c, f>> \in
            UNION {{<<r, c, f>> : f \in [1..(r * c) -> StdVals]} :
                       r \in 1..MaxStdLen, c \in 1..MaxStdLen}}

InitStandardize ==
    /\ std_args \in [data : DataArrays, dim : {"space", "time"}, scale : BOOLEAN]
    /\ standardized = NotCalled
    /\ X = Idle /\ d = Idle /\ embedded = Idle
    /\ ds = Idle /\ request = Idle /\ tz = 0 /\ sliced = Idle
    /\ era5_ds = Idle /\ flattened = Idle
    /\ res_args = Idle /\ resampled = Idle
    /\ run = Idle /\ files = Idle /\ clock = 0

CallStandardizeData ==
    /\ ~standardized.called
    /\ standardized' =
           Return(standardize_data(std_args.data, std_args.dim, std_args.scale))
    /\ UNCHANGED <<X, d, embedded, ds, request, tz, sliced, era5_ds, flattened,
                   std_args, res_args, resampled, run, files, clock>>

NextStandardize == CallStandardizeData

SpecStandardize == InitStandardize /\ [][NextStandardize]_vars

---------------------------------------------------------------------------
\* Claims about standardize_data (checked under SpecStandardize).

\* The input elements x_1 .. x_N of the line through ix along dim, as
\* integers, and N times the deviation of element ix from the line's mean.
InputLine(ix) ==
    LET axis == PosIn(std_args.data.dims, std_args.dim)
        line == Line(std_args.data, ix, axis)
    IN  [k \in 1..Len(line) |-> line[k][1]]

RECURSIVE IntSum(_)
IntSum(seq) == IF seq = <<>> THEN 0 ELSE Head(seq) + IntSum(Tail(seq))

NTimesDeviation(ix) ==
    LET line == InputLine(ix)
    IN  Len(line) * At(std_args.data, ix)[1] - IntSum(line)

SumSquaredNTimesDeviations(ix) ==
    LET line == InputLine(ix)
        dev == [k \in 1..Len(line) |-> Len(line) * line[k] - IntSum(line)]
    IN  IntSum([k \in 1..Len(line) |-> dev[k] * dev[k]])

Indices(a) == {Unravel(p - 1, a.shape) : p \in 1..Prod(a.shape)}

\* C13: whatever the scale flag, the mean along dim is subtracted; the
\* division by the standard deviation along dim is applied if and only if
\* scale is true, and to the centred data.  With N the length of dim and
\* c = x - mean: without scale every result r has N*r = N*x - sum(x); with
\* scale r has the sign of c and r^2 * sum(c_k^2) = N * c^2, and is nan on
\* a constant line.
C13_CentredThenScaled ==
    standardized.called =>
        LET out == standardized.value
            N == std_args.data.shape[PosIn(std_args.data.dims, std_args.dim)]
        IN  /\ out.shape = std_args.data.shape
            /\ \A ix \in Indices(std_args.data) :
                 LET r == At(out, ix)
                     nc == NTimesDeviation(ix)
                     ss == SumSquaredNTimesDeviations(ix)
                 IN  IF ~std_args.scale
                     THEN r[1] * N = nc * r[2]
                     ELSE IF ss = 0 THEN r = "nan"
                     ELSE /\ r.sign = Sign(nc)
                          /\ r.square[1] * ss = N * nc * nc * r.square[2]

C13_Witness ==
    /\ standardized.called
    /\ std_args.scale /\ std_args.dim = "time"
    /\ std_args.data.shape = <<1, 2>>
    /\ std_args.data.data = <<FromInt(0), FromInt(3)>>
    /\ standardized.value.data =
         <<[sign |-> -1, square |-> <<1, 1>>], [sign |-> 1, square |-> <<1, 1>>]>>

---------------------------------------------------------------------------
\* resample_era5_dataset.
\*
\* Time is counted in whole units from the midnight before the dataset's
\* first timestamp, the origin of the resampling bins.  The time axis is
\* strictly increasing; snapshot k of the input is the value [snap |-> k].

Snapshot(k) == [snap |-> k]
Missing == [missing |-> TRUE]

\* ds.resample(time=delta_time): the labels of the bins, the left edges of
\* the periods of length delta_time counted from the origin, from the bin
\* of the first timestamp to the bin of the last one, empty bins included.
full_index(time, delta_time) ==
    LET first == (time[1] \div delta_time) * delta_time
        last == (time[Len(time)] \div delta_time) * delta_time
    IN  [k \in 1..((last - first) \div delta_time + 1) |->
            first + (k - 1) * delta_time]

\* The last sample at or before the label (0 when there is none): the
\* indexer of a forward fill.
PadIndex(time, label) ==
    IF \A i \in 1..Len(time) : time[i] > label THEN 0
    ELSE CHOOSE i \in 1..Len(time) :
            /\ time[i] <= label
            /\ \A j \in 1..Len(time) : time[j] <= label => j <= i

\* The first sample at or after the label (0 when there is none).
BackfillIndex(time, label) ==
    IF \A i \in 1..Len(time) : time[i] < label THEN 0
    ELSE CHOOSE i \in 1..Len(time) :
            /\ time[i] >= label
            /\ \A j \in 1..Len(time) : time[j] >= label => j >= i

\* A forward fill in place of the nearest sample.
NearestIndexPad(time, label) == PadIndex(time, label)

\* Index.get_indexer(method="nearest") on an increasing index: the sample
\* before the label when it is strictly nearer, the sample after otherwise.
NearestIndex(time, label) ==
    LET left == PadIndex(time, label)
        right == BackfillIndex(time, label)
    IN  IF right = 0 THEN left
        ELSE IF left = 0 THEN right
        ELSE IF label - time[left] < time[right] - label THEN left
        ELSE right

Take(values, i) == IF i = 0 THEN Missing ELSE values[i]

\* ds.resample(time=delta_time).nearest(): the dataset reindexed to the bin
\* labels, each label taking the nearest sample.
resample_era5_dataset(dataset, delta_time) ==
    LET labels == full_index(dataset.time, delta_time)
    IN  [time   |-> labels,
         values |-> [k \in 1..Len(labels) |->
                        Take(dataset.values,
                             NearestIndex(dataset.time, labels[k]))]]

ResampleInputs ==
    {[time |-> t, values |-> [k \in 1..Len(t) |-> Snapshot(k)]] :
        t \in {u \in SeqsUpTo(0..MaxResTick, MaxResSamples) :
                  /\ Len(u) >= 1
                  /\ \A k \in 1..(Len(u) - 1) : u[k] < u[k + 1]}}

InitResample ==
    /\ res_args \in [ds : ResampleInputs, delta_time : 1..MaxDelta]
    /\ resampled = NotCalled
    /\ X = Idle /\ d = Idle /\ embedded = Idle
    /\ ds = Idle /\ request = Idle /\ tz = 0 /\ sliced = Idle
    /\ era5_ds = Idle /\ flattened = Idle
    /\ std_args = Idle /\ standardized = Idle
    /\ run = Idle /\ files = Idle /\ clock = 0

CallResampleEra5Dataset ==
    /\ ~resampled.called
    /\ resampled' =
           Return(resample_era5_dataset(res_args.ds, res_args.delta_time))
    /\ UNCHANGED <<X, d, embedded, ds, request, tz, sliced, era5_ds, flattened,
                   std_args, standardized, res_args, run, files, clock>>

NextResample == CallResampleEra5Dataset

SpecResample == InitResample /\ [][NextResample]_vars

---------------------------------------------------------------------------
\* Claims about resample_era5_dataset (checked under SpecResample).

\* C14: consecutive timestamps of the output differ by exactly delta_time,
\* and every output snapshot is a snapshot of the input, one that no other
\* input snapshot is nearer in time to the output timestamp than.
C14_NearestAtCadence ==
    resampled.called =>
        LET out == resampled.value
            in == res_args.ds
        IN  /\ Len(out.time) >= 1
            /\ Len(out.values) = Len(out.time)
            /\ \A k \in 1..(Len(out.time) - 1) :
                 out.time[k + 1] - out.time[k] = res_args.delta_time
            /\ \A k \in 1..Len(out.time) :
                 \E i \in 1..Len(in.time) :
                    /\ out.values[k] = in.values[i]
                    /\ \A j \in 1..Len(in.time) :
                         Abs(in.time[i] - out.time[k])
                            <= Abs(in.time[j] - out.time[k])

C14_Witness ==
    /\ resampled.called
    /\ res_args.ds.time = <<1, 2, 5>> /\ res_args.delta_time = 2
    /\ resampled.value.time = <<0, 2, 4>>
    /\ resampled.value.values = <<Snapshot(1), Snapshot(2), Snapshot(3)>>

---------------------------------------------------------------------------
\* run_dmd_analysis (src/run_dmd_quick.py).
\*
\* Array elements are symbolic.  An element of the data is the index
\* <<t, a, o>> it has in ds["temperature"].isel(level=0); an element of the
\* reconstruction is the record of the row of the modes and the power of
\* the eigenvalues it is evaluated with.

train_frac == <<4, 5>>
svd_rank == 10
delay == 2
TicksPerSecond == 2

Min(a, b) == IF a < b THEN a ELSE b

\* a.reshape(shape), one entry of shape being -1 at most: the elements in
\* C order under the new shape.
reshape(a, shape) ==
    LET known == Prod([k \in 1..Len(shape) |->
                          IF shape[k] = -1 THEN 1 ELSE shape[k]])
        inferred == IF known = 0 THEN 0 ELSE size(a) \div known
    IN  [shape |-> [k \in 1..Len(shape) |->
                       IF shape[k] = -1 THEN inferred ELSE shape[k]],
         data  |-> a.data]

\* a[:rows, :cols] of a 2-D array.
Leading(a, rows, cols) ==
    LET shape == <<Min(rows, a.shape[1]), Min(cols, a.shape[2])>>
        elem(ix) == At(a, ix)
    IN  MkArray(shape, elem)

\* The temperature field at the first level, of shape (time, lat, lon).
temp_data(n_time, n_lat, n_lon) ==
    LET elem(ix) == ix
    IN  MkArray(<<n_time, n_lat, n_lon>>, elem)

\* X = temp_data.values.reshape(temp_data.shape[0], -1).T
DataMatrix(temp) == Transposed(reshape(temp, <<temp.shape[1], -1>>))

\* T_train = int(len(t) * train_frac)
TrainLength(n_time) == (n_time * train_frac[1]) \div train_frac[2]

\* (modes @ np.diag(amplitudes) @ np.vander(eigs, N, increasing=True)).T:
\* row j of the result is every row of the modes evaluated with the
\* eigenvalues to the power j, j = 0 .. N - 1.
Evaluate(n_rows, N) ==
    LET elem(ix) == [row |-> ix[2], power |-> ix[1]]
    IN  MkArray(<<N, n_rows>>, elem)

\* Lines 128-162: the reconstruction over the training and the test
\* horizon, combined, oriented (space, time) and cut to the data's shape.
Reconstruction(n_spatial, n_time, T_train) ==
    LET n_rows == delay * n_spatial
        X_dmd_train == Leading(Evaluate(n_rows, T_train), T_train, n_spatial)
        n_test == n_time - T_train
        \* np.vander(eigs, len(t_test), increasing=True): powers from 0
        X_dmd_test == Leading(Evaluate(n_rows, n_test), n_test, n_spatial)
        combined == concatenate(<<X_dmd_train, X_dmd_test>>)
        oriented == IF combined.shape[2] = n_spatial
                    THEN Transposed(combined) ELSE combined
    IN  Leading(oriented, n_spatial, n_time)

\* The array of the indices of a: element ix is ix.
IndexArray(a) ==
    LET elem(ix) == ix
    IN  MkArray(a.shape, elem)

\* np.average(np.average(a, axis=0), axis=0) of a 3-D array: entry k is
\* reduced from the elements a[i, j, k].
ReducedOverLeadingAxes(a) ==
    [k \in 1..a.shape[3] |->
        {At(a, <<i, j, k - 1>>) :
            i \in 0..(a.shape[1] - 1), j \in 0..(a.shape[2] - 1)}]

\* np.std(a, axis=(1, 2)) of a 3-D array: entry k is reduced from the
\* elements a[k, i, j].
ReducedOverTrailingAxes(a) ==
    [k \in 1..a.shape[1] |->
        {At(a, <<k - 1, i, j>>) :
            i \in 0..(a.shape[2] - 1), j \in 0..(a.shape[3] - 1)}]

\* The indices of the matrix M that the weighted spatial mean reduces into
\* each of its entries: M.reshape(n_lat, n_lon, -1) averaged over lat, lon.
SpatialMeanOf(M, n_lat, n_lon) ==
    ReducedOverLeadingAxes(reshape(IndexArray(M), <<n_lat, n_lon, -1>>))

\* The indices of the matrix M that the spatial standard deviation reduces
\* into each of its entries: np.std(M.reshape(-1, n_lat, n_lon), axis=(1, 2)).
SpatialStdOf(M, n_lat, n_lon) ==
    ReducedOverTrailingAxes(reshape(IndexArray(M), <<-1, n_lat, n_lon>>))

\* np.broadcast_arrays on 1-D arrays of these lengths succeeds.
Broadcastable(n, m) == n = m \/ n = 1 \/ m = 1

\* datetime.now().strftime("%Y%m%d_%H%M%S"): the clock to whole seconds.
strftime(now) == now \div TicksPerSecond

\* A file name under a key other than the one given.
path_other_key(stem, timestamp, ext) == <<stem, timestamp + 1, ext>>

\* os.path.join(output_dir, f"{stem}_{timestamp}.{ext}")
path_join(stem, timestamp, ext) == <<stem, timestamp, ext>>

\* plt.savefig and np.save: the file is written with the content the
\* object has at the time of the call.
save(fs, path, content) == Append(fs, [path |-> path, content |-> content])

EmptyArray == [shape |-> <<0, 0>>, data |-> <<>>]
NoMetadata == [unset |-> TRUE]

InitRun ==
    /\ run \in [pc : {"start"},
                n_lat : 1..MaxGrid, n_lon : 1..MaxGrid, n_time : 1..MaxRunT,
                X : {EmptyArray}, T_train : {0}, n_modes : {0},
                X_dmd : {EmptyArray},
                X_true_mean : {<<>>}, X_dmd_mean : {<<>>},
                X_true_std : {<<>>}, X_dmd_std : {<<>>},
                plot_calls : {<<>>}, timestamp : {None}, now_calls : {0},
                metadata : {NoMetadata}, result : {NotCalled}]
    /\ files = <<>>
    /\ clock = 0
    /\ X = Idle /\ d = Idle /\ embedded = Idle
    /\ ds = Idle /\ request = Idle /\ tz = 0 /\ sliced = Idle
    /\ era5_ds = Idle /\ flattened = Idle
    /\ std_args = Idle /\ standardized = Idle
    /\ res_args = Idle /\ resampled = Idle

OthersUnchanged ==
    UNCHANGED <<X, d, embedded, ds, request, tz, sliced, era5_ds, flattened,
                std_args, standardized, res_args, resampled>>

\* Lines 22-86: the data matrix, the time vector and the split.
Prepare ==
    /\ run.pc = "start"
    /\ run' = [run EXCEPT
                 !.pc = "prepared",
                 !.X = DataMatrix(temp_data(run.n_time, run.n_lat, run.n_lon)),
                 !.T_train = TrainLength(run.n_time)]
    /\ UNCHANGED <<files, clock>>
    /\ OthersUnchanged

\* Lines 88-117: the fit of the external DMD model returns its modes,
\* eigenvalues and amplitudes, svd_rank of them at most.
Fit ==
    /\ run.pc = "prepared"
    /\ \E r \in 1..Min(svd_rank, MaxRank) :
          run' = [run EXCEPT !.pc = "fitted", !.n_modes = r]
    /\ UNCHANGED <<files, clock>>
    /\ OthersUnchanged

\* Lines 88-117: the fit of the external DMD model raises.
FitRaises ==
    /\ run.pc = "prepared"
    /\ run' = [run EXCEPT
                 !.pc = "raised",
                 !.result = Raise("Exception", "the fit failed", "fit")]
    /\ UNCHANGED <<files, clock>>
    /\ OthersUnchanged

\* Lines 119-162.
Reconstruct ==
    /\ run.pc = "fitted"
    /\ run' = [run EXCEPT
                 !.pc = "reconstructed",
                 !.X_dmd = Reconstruction(run.X.shape[1], run.X.shape[2],
                                          run.T_train)]
    /\ UNCHANGED <<files, clock>>
    /\ OthersUnchanged

\* Lines 164-221: the spatial means, dt = t[1] - t[0], the errors and the
\* spatial standard deviations.
Evaluation ==
    /\ run.pc = "reconstructed"
    /\ LET X_true_mean == SpatialMeanOf(run.X, run.n_lat, run.n_lon)
           X_dmd_mean == SpatialMeanOf(run.X_dmd, run.n_lat, run.n_lon)
       IN  IF run.n_time < 2
           THEN run' = [run EXCEPT
                          !.pc = "raised",
                          !.X_true_mean = X_true_mean,
                          !.X_dmd_mean = X_dmd_mean,
                          !.result =
                              Raise("IndexError",
                                    "index 1 is out of bounds for axis 0",
                                    "dt")]
           ELSE run' = [run EXCEPT
                          !.pc = "evaluated",
                          !.X_true_mean = X_true_mean,
                          !.X_dmd_mean = X_dmd_mean,
                          !.X_true_std =
                              SpatialStdOf(run.X, run.n_lat, run.n_lon),
                          !.X_dmd_std =
                              SpatialStdOf(run.X_dmd, run.n_lat, run.n_lon)]
    /\ UNCHANGED <<files, clock>>
    /\ OthersUnchanged

\* Lines 224-247: the calls that draw a series against a time vector, in
\* order, each with the length of its time vector and of its series.
PlottingCalls(r) ==
    <<[call |-> "fill_between", series |-> "X_true_mean -+ X_true_std",
       x |-> r.T_train, y |-> Len(r.X_true_std)],
      [call |-> "fill_between", series |-> "X_dmd_mean -+ X_dmd_std",
       x |-> r.T_train, y |-> Len(r.X_dmd_std)],
      [call |-> "plot", series |-> "X_true_mean",
       x |-> r.n_time, y |-> Len(r.X_true_mean)],
      [call |-> "plot", series |-> "X_dmd_mean",
       x |-> r.n_time, y |-> Len(r.X_dmd_mean)]>>

\* fill_between broadcasts its arguments against each other; plot requires
\* x and y of the same length.
Accepted(c) ==
    IF c.call = "fill_between" THEN Broadcastable(c.x, c.y) ELSE c.x = c.y

\* The number of calls made: up to the first one that raises.
CallsMade(calls) ==
    IF \A k \in 1..Len(calls) : Accepted(calls[k]) THEN Len(calls)
    ELSE CHOOSE k \in 1..Len(calls) :
            /\ ~Accepted(calls[k])
            /\ \A j \in 1..(k - 1) : Accepted(calls[j])

\* Lines 223-268.
Plot ==
    /\ run.pc = "evaluated"
    /\ LET calls == PlottingCalls(run)
           made == CallsMade(calls)
       IN  IF Accepted(calls[made])
           THEN run' = [run EXCEPT !.pc = "plotted", !.plot_calls = calls]
           ELSE run' = [run EXCEPT
                          !.pc = "raised",
                          !.plot_calls = SubSeq(calls, 1, made),
                          !.result =
                              Raise("ValueError",
                                    "shape mismatch: objects cannot be broadcast to a single shape",
                                    calls[made].call)]
    /\ UNCHANGED <<files, clock>>
    /\ OthersUnchanged

\* Lines 270-273: the key is read from the clock and the figure is saved.
SaveFigure ==
    /\ run.pc = "plotted"
    /\ LET timestamp == strftime(clock)
       IN  /\ run' = [run EXCEPT
                        !.pc = "figure_saved",
                        !.timestamp = Some(timestamp),
                        !.now_calls = @ + 1]
           /\ files' = save(files, path_join("dmd_prediction", timestamp, "png"),
                            [figure |-> run.plot_calls])
    /\ UNCHANGED clock
    /\ OthersUnchanged

\* Lines 275-279.
SaveArrays ==
    /\ run.pc = "figure_saved"
    /\ LET timestamp == run.timestamp.v
           modes == save(files, path_join("dmd_modes", timestamp, "npy"),
                         [array |-> "modes"])
           eigs == save(modes, path_join("dmd_eigs", timestamp, "npy"),
                        [array |-> "eigs"])
           amplitudes ==
               save(eigs, path_join("dmd_amplitudes", timestamp, "npy"),
                    [array |-> "amplitudes"])
       IN  files' = save(amplitudes,
                         path_join("dmd_prediction", timestamp, "npy"),
                         [array |-> "X_dmd"])
    /\ run' = [run EXCEPT !.pc = "arrays_saved"]
    /\ UNCHANGED clock
    /\ OthersUnchanged

\* Lines 281-291: the metadata is built and saved.
SaveMetadata ==
    /\ run.pc = "arrays_saved"
    /\ LET metadata == [train_frac |-> train_frac,
                        svd_rank |-> svd_rank,
                        delay |-> delay,
                        n_modes |-> run.n_modes,
                        spatial_shape |-> <<run.n_lat, run.n_lon>>,
                        temporal_points |-> run.X.shape[2],
                        train_points |-> run.T_train]
       IN  /\ run' = [run EXCEPT !.pc = "metadata_saved",
                                 !.metadata = metadata]
           /\ files' = save(files,
                            path_join("dmd_metadata", run.timestamp.v, "npy"),
                            metadata)
    /\ UNCHANGED clock
    /\ OthersUnchanged

\* Lines 293-306: the test metrics are computed and added to the metadata
\* in memory.
AddTestMetrics ==
    /\ run.pc = "metadata_saved"
    /\ run' = [run EXCEPT
                 !.pc = "metrics_added",
                 !.metadata =
                     @ @@ [test_mse |-> "float(test_error)",
                           test_relative_error |-> "float(relative_error)"]]
    /\ UNCHANGED <<files, clock>>
    /\ OthersUnchanged

\* Line 314.
ReturnTimestamp ==
    /\ run.pc = "metrics_added"
    /\ run' = [run EXCEPT !.pc = "done", !.result = Return(run.timestamp.v)]
    /\ UNCHANGED <<files, clock>>
    /\ OthersUnchanged

\* The wall clock advances.
Tick ==
    /\ clock < MaxClock
    /\ clock' = clock + 1
    /\ UNCHANGED <<run, files>>
    /\ OthersUnchanged

NextRun ==
    \/ Prepare
    \/ Fit
    \/ FitRaises
    \/ Reconstruct
    \/ Evaluation
    \/ Plot
    \/ SaveFigure
    \/ SaveArrays
    \/ SaveMetadata
    \/ AddTestMetrics
    \/ ReturnTimestamp
    \/ Tick

SpecRun == InitRun /\ [][NextRun]_vars

---------------------------------------------------------------------------
\* Claims about run_dmd_analysis (checked under SpecRun).

Persisted(stem) ==
    {i \in 1..Len(files) : files[i].path[1] = stem /\ files[i].path[3] = "npy"}

RunParameters ==
    {"train_frac", "svd_rank", "delay", "n_modes", "spatial_shape",
     "temporal_points", "train_points"}

TestMetrics == {"test_mse", "test_relative_error"}

\* C11: the metadata record written to disk holds the run parameters and
\* the test metrics test_mse and test_relative_error.
C11_PersistedMetadataHasTestMetrics ==
    \A i \in Persisted("dmd_metadata") :
        /\ RunParameters \subseteq DOMAIN files[i].content
        /\ TestMetrics \subseteq DOMAIN files[i].content

Artifacts ==
    {<<"dmd_prediction", "png">>, <<"dmd_modes", "npy">>,
     <<"dmd_eigs", "npy">>, <<"dmd_amplitudes", "npy">>,
     <<"dmd_prediction", "npy">>, <<"dmd_metadata", "npy">>}

\* C12: the clock is read once in a run, at the time the figure is saved;
\* every file written is written under that key; once the metadata is
\* saved the six artifacts are on disk, one file each, and the function
\* returns the key.
C12_OneKeyForAllArtifacts ==
    /\ run.now_calls = (IF run.timestamp.given THEN 1 ELSE 0)
    /\ run.timestamp.given <=>
          run.pc \in {"figure_saved", "arrays_saved", "metadata_saved",
                      "metrics_added", "done"}
    /\ ~run.timestamp.given => files = <<>>
    /\ run.timestamp.given =>
          \A i \in 1..Len(files) : files[i].path[2] = run.timestamp.v
    /\ run.pc \in {"metadata_saved", "metrics_added", "done"} =>
          /\ Len(files) = Cardinality(Artifacts)
          /\ {<<files[i].path[1], files[i].path[3]>> : i \in 1..Len(files)}
                = Artifacts
    /\ run.pc = "done" => run.result = Return(run.timestamp.v)

\* A run that returned while the clock went on to a later second.
C12_Witness ==
    /\ run.pc = "done"
    /\ Len(files) = 6
    /\ run.result.value = run.timestamp.v
    /\ strftime(clock) > run.timestamp.v

\* C15: the column of X_dmd for time index k is evaluated with the
\* eigenvalues to the power k.
C15_PowerIsTimeIndex ==
    run.pc \in {"reconstructed", "evaluated", "plotted", "figure_saved",
                "arrays_saved", "metadata_saved", "metrics_added", "done"} =>
        /\ run.X_dmd.shape = <<run.n_lat * run.n_lon, run.n_time>>
        /\ \A s \in 0..(run.X_dmd.shape[1] - 1) :
             \A k \in 0..(run.X_dmd.shape[2] - 1) :
                At(run.X_dmd, <<s, k>>) = [row |-> s, power |-> k]

\* C16: with two time samples or more, every series handed to a plotting
\* call is as long as the time vector it is drawn against, and no plotting
\* call raises.
C16_SeriesMatchTimeVectors ==
    run.n_time >= 2 =>
        /\ \A k \in 1..Len(run.plot_calls) :
              run.plot_calls[k].x = run.plot_calls[k].y
        /\ run.result.raised =>
              run.result.stage \notin {"fill_between", "plot"}

Column(M, k) == {<<s, k>> : s \in 0..(M.shape[1] - 1)}

\* C17: entry k of X_true_std and of X_dmd_std is reduced from the
\* elements (s, k) of the (space, time) matrix, all of them and only them,
\* as entry k of the spatial means is.
C17_StdReducesColumn ==
    run.pc \in {"evaluated", "plotted", "figure_saved", "arrays_saved",
                "metadata_saved", "metrics_added", "done"} =>
        /\ Len(run.X_true_std) = run.n_time
        /\ Len(run.X_dmd_std) = run.n_time
        /\ \A k \in 0..(run.n_time - 1) :
              /\ run.X_true_mean[k + 1] = Column(run.X, k)
              /\ run.X_dmd_mean[k + 1] = Column(run.X_dmd, k)
              /\ run.X_true_std[k + 1] = Column(run.X, k)
              /\ run.X_dmd_std[k + 1] = Column(run.X_dmd, k)

====
